---- MODULE Spec2Model ----
(***************************************************************************)
(* Model of src/branchBank.py: the ACL / CIDR containment test             *)
(* (ip_to_int, acl_contains_cidr), the line loaders and the batch loop     *)
(* batch_verify_acl_coverage.                                              *)
(*                                                                         *)
(* Text.  A line is modelled by what the code's split() calls make of it:  *)
(* a sequence of tokens (whitespace-separated for an ACL line, '/'-        *)
(* separated for a CIDR line), each token a sequence of '.'-separated      *)
(* components.  A component is the natural number its digits denote, or    *)
(* NotNum when int() rejects it.  The empty sequence of tokens is a line   *)
(* that is empty after strip(); a first component Hash is a line whose     *)
(* first character is '#'.                                                 *)
(*                                                                         *)
(* Numbers.  Python integers are unbounded and TLC's are 32-bit signed, so *)
(* a non-negative Python integer is modelled by the set of the positions   *)
(* of its 1 bits: | is union, & is intersection, a & ~w is set difference, *)
(* ^ is symmetric difference, << adds to every position.                   *)
(***************************************************************************)
EXTENDS Integers, Sequences, FiniteSets

VARIABLES
    acl_file,       \* the ACL input file: [exists, lines]
    cidr_file,      \* the CIDR input file: [exists, lines]
    acl_list,       \* batch_verify_acl_coverage: loaded ACL lines
    cidr_list,      \* batch_verify_acl_coverage: loaded CIDR lines
    pc,             \* position in batch_verify_acl_coverage (or in the direct call)
    i,              \* index of the CIDR of the outer loop (1-based, 0 before it)
    j,              \* index of the ACL entry the inner loop tests next
    covered,        \* the flag `covered` of the current CIDR
    covered_count,  \* covered_count
    not_covered,    \* not_covered
    errors,         \* the "处理错误" notices printed, as <<i, j>> pairs, in order
    calls,          \* the calls of acl_contains_cidr made, as <<i, j>> pairs, in order
    msg,            \* what the run printed at its end ("none" while running)
    summary,        \* the three counts of the final summary, once printed
    exported,       \* the rows handed to export_to_excel, once called
    export_called,  \* whether export_to_excel was called
    raised,         \* the exception that left batch_verify_acl_coverage
    prev,           \* the outcome of an earlier run on a permutation of the ACL lines
    acl,            \* direct call: argument acl_str
    cidr,           \* direct call: argument cidr_str
    result          \* direct call: what acl_contains_cidr returned or raised

vars == <<acl_file, cidr_file, acl_list, cidr_list, pc, i, j, covered,
          covered_count, not_covered, errors, calls, msg, summary, exported,
          export_called, raised, prev, acl, cidr, result>>

-----------------------------------------------------------------------------
(* Bounds of the model *)

MaxAclLines == 2
MaxCidrLines == 2
MaxHostBits == 4

-----------------------------------------------------------------------------
(* Text *)

\* a component int() raises ValueError on
NotNum == -1
\* a component that starts with '#'
Hash == -2

Min(S) == CHOOSE x \in S : \A y \in S : x <= y
Max(S) == CHOOSE x \in S : \A y \in S : x >= y

SeqUpTo(S, n) == UNION {[1..k -> S] : k \in 0..n}

-----------------------------------------------------------------------------
(* Python integers as sets of bit positions *)

\* the bits of a natural number below 2^31
Bits(n) == {k \in 0..30 : (n \div (2^k)) % 2 = 1}

\* x << s, for s >= 0
Shl(x, s) == {b + s : b \in x}

\* a ^ b
BitXor(a, b) == (a \ b) \cup (b \ a)

\* a <= b
Le(a, b) == a = b \/ Max(BitXor(a, b)) \in b

\* 0xFFFFFFFF
AllOnes == 0..31

\* int(s) of a whole token: a single numeric component
IntOf(tok) ==
    IF Len(tok) = 1 /\ tok[1] >= 0
    THEN [exc |-> "none", val |-> tok[1]]
    ELSE [exc |-> "ValueError", val |-> 0]

\* ip_to_int: the components are converted left to right, so the first one
\* that is missing (IndexError) or not a number (ValueError) decides; components
\* after the fourth are ignored.
ip_to_int(parts) ==
    LET bad == {k \in 1..4 : k > Len(parts) \/ parts[k] < 0}
    IN  IF bad # {}
        THEN [exc |-> IF Min(bad) > Len(parts) THEN "IndexError" ELSE "ValueError",
              val |-> {}]
        ELSE [exc |-> "none",
              val |-> Shl(Bits(parts[1]), 24) \cup Shl(Bits(parts[2]), 16)
                      \cup Shl(Bits(parts[3]), 8) \cup Bits(parts[4])]

\* acl_start = acl_ip & ~wildcard
acl_start(acl_ip, wildcard) == acl_ip \ wildcard

\* acl_end = acl_ip | wildcard
acl_end(acl_ip, wildcard) == acl_ip \cup wildcard

\* a shift whose count is taken modulo the word size, as a 32-bit machine shift is
cidr_mask_shift_mod_32(prefix_len) ==
    Shl(AllOnes, (32 - prefix_len) % 32) \cap AllOnes

\* mask = (0xFFFFFFFF << (32 - prefix_len)) & 0xFFFFFFFF, for prefix_len <= 32
cidr_mask(prefix_len) == Shl(AllOnes, 32 - prefix_len) \cap AllOnes

\* the base address taken as the start, its host bits kept
cidr_start_unmasked(cidr_ip, mask) == cidr_ip

\* cidr_start = cidr_ip & mask
cidr_start(cidr_ip, mask) == cidr_ip \cap mask

\* cidr_end = cidr_start | (0xFFFFFFFF ^ mask)
cidr_end(cstart, mask) == cstart \cup BitXor(AllOnes, mask)

\* the test of the start alone
contains_start_only(astart, aend, cstart, cend) == Le(astart, cstart)

\* acl_start <= cidr_start and acl_end >= cidr_end
contains(astart, aend, cstart, cend) == Le(astart, cstart) /\ Le(cend, aend)

\* acl_contains_cidr: "True", "False", or the exception that leaves it.  The ACL
\* is parsed first, then the CIDR: token count, prefix length, address, mask.
acl_contains_cidr(acl_str, cidr_str) ==
    IF Len(acl_str) # 2 THEN "ValueError"
    ELSE
    LET acl_ip == ip_to_int(acl_str[1]) IN
    IF acl_ip.exc # "none" THEN acl_ip.exc
    ELSE
    LET wildcard == ip_to_int(acl_str[2]) IN
    IF wildcard.exc # "none" THEN wildcard.exc
    ELSE
    IF Len(cidr_str) # 2 THEN "ValueError"
    ELSE
    LET prefix_len == IntOf(cidr_str[2]) IN
    IF prefix_len.exc # "none" THEN prefix_len.exc
    ELSE
    LET cidr_ip == ip_to_int(cidr_str[1]) IN
    IF cidr_ip.exc # "none" THEN cidr_ip.exc
    ELSE
    IF 32 - prefix_len.val < 0 THEN "ValueError"
    ELSE
    LET mask == cidr_mask(prefix_len.val)
        cstart == cidr_start(cidr_ip.val, mask)
    IN  IF contains(acl_start(acl_ip.val, wildcard.val),
                    acl_end(acl_ip.val, wildcard.val),
                    cstart, cidr_end(cstart, mask))
        THEN "True" ELSE "False"

-----------------------------------------------------------------------------
(* Inputs *)

\* "10.0.0.0 0.0.0.3", "10.0.0.4 0.0.0.3" (together 10.0.0.0 - 10.0.0.7),
\* "10.0.0.0" (no wildcard), "10.0.0 0.0.0.7" (three components) and a
\* comment line
AclLineSet ==
    { << <<10, 0, 0, 0>>, <<0, 0, 0, 3>> >>,
      << <<10, 0, 0, 4>>, <<0, 0, 0, 3>> >>,
      << <<10, 0, 0, 0>> >>,
      << <<10, 0, 0>>, <<0, 0, 0, 7>> >>,
      << <<Hash>> >> }

\* "10.0.0.0/30", "10.0.0.4/29", "10.0.0.0" (no prefix), "10.0.0.0/x",
\* "10.0.0/30" (three components) and an empty line
CidrLineSet ==
    { << <<10, 0, 0, 0>>, <<30>> >>,
      << <<10, 0, 0, 4>>, <<29>> >>,
      << <<10, 0, 0, 0>> >>,
      << <<10, 0, 0, 0>>, <<NotNum>> >>,
      << <<10, 0, 0>>, <<30>> >>,
      << >> }

FileSet(lines, n) ==
    {[exists |-> FALSE, lines |-> << >>]}
    \cup {[exists |-> TRUE, lines |-> l] : l \in SeqUpTo(lines, n)}

NoRun == [status |-> "none", covered_count |-> 0, not_covered |-> << >>]
NoSummary == [total |-> -1, covered |-> -1, uncovered |-> -1]

-----------------------------------------------------------------------------
(* load_acl_from_file, load_cidr_from_file *)

\* `if line and not line.startswith('#')`
KeepLine(line) ==
    /\ line # << >>
    /\ ~(Len(line[1]) > 0 /\ line[1][1] = Hash)

\* a missing file (FileNotFoundError) gives the empty list
load_acl_from_file(file) ==
    IF file.exists THEN SelectSeq(file.lines, KeepLine) ELSE << >>

load_cidr_from_file(file) ==
    IF file.exists THEN SelectSeq(file.lines, KeepLine) ELSE << >>

-----------------------------------------------------------------------------
(* batch_verify_acl_coverage *)

Init ==
    /\ acl_file \in FileSet(AclLineSet, MaxAclLines)
    /\ cidr_file \in FileSet(CidrLineSet, MaxCidrLines)
    /\ acl_list = << >>
    /\ cidr_list = << >>
    /\ pc = "start"
    /\ i = 0
    /\ j = 0
    /\ covered = FALSE
    /\ covered_count = 0
    /\ not_covered = << >>
    /\ errors = << >>
    /\ calls = << >>
    /\ msg = "none"
    /\ summary = NoSummary
    /\ exported = << >>
    /\ export_called = FALSE
    /\ raised = "none"
    /\ prev = NoRun
    /\ acl = << >>
    /\ cidr = << >>
    /\ result = "none"

inputs == <<acl_file, cidr_file, prev, acl, cidr, result>>

\* lines 117-118
Load ==
    /\ pc = "start"
    /\ acl_list' = load_acl_from_file(acl_file)
    /\ cidr_list' = load_cidr_from_file(cidr_file)
    /\ pc' = "loaded"
    /\ UNCHANGED <<inputs, i, j, covered, covered_count, not_covered, errors,
                   calls, msg, summary, exported, export_called, raised>>

\* lines 120-122
NoAcl ==
    /\ pc = "loaded"
    /\ acl_list = << >>
    /\ msg' = "no ACL loaded"
    /\ pc' = "done"
    /\ UNCHANGED <<inputs, acl_list, cidr_list, i, j, covered, covered_count,
                   not_covered, errors, calls, summary, exported,
                   export_called, raised>>

\* lines 124-126
NoCidr ==
    /\ pc = "loaded"
    /\ acl_list # << >>
    /\ cidr_list = << >>
    /\ msg' = "no CIDR loaded"
    /\ pc' = "done"
    /\ UNCHANGED <<inputs, acl_list, cidr_list, i, j, covered, covered_count,
                   not_covered, errors, calls, summary, exported,
                   export_called, raised>>

\* lines 128-134
BeginScan ==
    /\ pc = "loaded"
    /\ acl_list # << >>
    /\ cidr_list # << >>
    /\ covered_count' = 0
    /\ not_covered' = << >>
    /\ i' = 0
    /\ pc' = "outer"
    /\ UNCHANGED <<inputs, acl_list, cidr_list, j, covered, errors, calls,
                   msg, summary, exported, export_called, raised>>

\* lines 137-139: the next CIDR; its scan starts at the first ACL entry
NextCidr ==
    /\ pc = "outer"
    /\ i < Len(cidr_list)
    /\ i' = i + 1
    /\ covered' = FALSE
    /\ j' = 1
    /\ pc' = "inner"
    /\ UNCHANGED <<inputs, acl_list, cidr_list, covered_count, not_covered,
                   errors, calls, msg, summary, exported, export_called,
                   raised>>

\* the inner loop without its break: a covering entry is noted and the scan goes on
CheckPair_no_break ==
    /\ pc = "inner"
    /\ j <= Len(acl_list)
    /\ calls' = Append(calls, <<i, j>>)
    /\ LET r == acl_contains_cidr(acl_list[j], cidr_list[i]) IN
       \/ /\ r = "True"
          /\ covered' = TRUE
          /\ j' = j + 1
          /\ UNCHANGED <<pc, errors, raised>>
       \/ /\ r = "False"
          /\ j' = j + 1
          /\ UNCHANGED <<pc, covered, errors, raised>>
       \/ /\ r = "ValueError"
          /\ errors' = Append(errors, <<i, j>>)
          /\ j' = j + 1
          /\ UNCHANGED <<pc, covered, raised>>
       \/ /\ r = "IndexError"
          /\ raised' = r
          /\ pc' = "raised"
          /\ UNCHANGED <<j, covered, errors>>
    /\ UNCHANGED <<inputs, acl_list, cidr_list, i, covered_count, not_covered,
                   msg, summary, exported, export_called>>

\* the inner loop without its except clause: a ValueError leaves the function
CheckPair_no_except ==
    /\ pc = "inner"
    /\ j <= Len(acl_list)
    /\ calls' = Append(calls, <<i, j>>)
    /\ LET r == acl_contains_cidr(acl_list[j], cidr_list[i]) IN
       \/ /\ r = "True"
          /\ covered' = TRUE
          /\ pc' = "verdict"
          /\ UNCHANGED <<j, errors, raised>>
       \/ /\ r = "False"
          /\ j' = j + 1
          /\ UNCHANGED <<pc, covered, errors, raised>>
       \/ /\ r \in {"ValueError", "IndexError"}
          /\ raised' = r
          /\ pc' = "raised"
          /\ UNCHANGED <<j, covered, errors>>
    /\ UNCHANGED <<inputs, acl_list, cidr_list, i, covered_count, not_covered,
                   msg, summary, exported, export_called>>

\* lines 139-146: one iteration of the inner loop
CheckPair ==
    /\ pc = "inner"
    /\ j <= Len(acl_list)
    /\ calls' = Append(calls, <<i, j>>)
    /\ LET r == acl_contains_cidr(acl_list[j], cidr_list[i]) IN
       \/ /\ r = "True"                      \* covered = True; break
          /\ covered' = TRUE
          /\ pc' = "verdict"
          /\ UNCHANGED <<j, errors, raised>>
       \/ /\ r = "False"
          /\ j' = j + 1
          /\ UNCHANGED <<pc, covered, errors, raised>>
       \/ /\ r = "ValueError"                \* except ValueError: print; continue
          /\ errors' = Append(errors, <<i, j>>)
          /\ j' = j + 1
          /\ UNCHANGED <<pc, covered, raised>>
       \/ /\ r = "IndexError"                \* not caught: leaves the function
          /\ raised' = r
          /\ pc' = "raised"
          /\ UNCHANGED <<j, covered, errors>>
    /\ UNCHANGED <<inputs, acl_list, cidr_list, i, covered_count, not_covered,
                   msg, summary, exported, export_called>>

\* line 139: the ACL list is exhausted
InnerDone ==
    /\ pc = "inner"
    /\ j > Len(acl_list)
    /\ pc' = "verdict"
    /\ UNCHANGED <<inputs, acl_list, cidr_list, i, j, covered, covered_count,
                   not_covered, errors, calls, msg, summary, exported,
                   export_called, raised>>

\* the uncovered CIDR put at the head of the list
Verdict_prepend ==
    /\ pc = "verdict"
    /\ IF covered
       THEN /\ covered_count' = covered_count + 1
            /\ UNCHANGED not_covered
       ELSE /\ not_covered' = <<cidr_list[i]>> \o not_covered
            /\ UNCHANGED covered_count
    /\ pc' = "outer"
    /\ UNCHANGED <<inputs, acl_list, cidr_list, i, j, covered, errors, calls,
                   msg, summary, exported, export_called, raised>>

\* lines 148-152
Verdict ==
    /\ pc = "verdict"
    /\ IF covered
       THEN /\ covered_count' = covered_count + 1
            /\ UNCHANGED not_covered
       ELSE /\ not_covered' = Append(not_covered, cidr_list[i])
            /\ UNCHANGED covered_count
    /\ pc' = "outer"
    /\ UNCHANGED <<inputs, acl_list, cidr_list, i, j, covered, errors, calls,
                   msg, summary, exported, export_called, raised>>

\* lines 155-159
Summary ==
    /\ pc = "outer"
    /\ i = Len(cidr_list)
    /\ summary' = [total |-> Len(cidr_list), covered |-> covered_count,
                   uncovered |-> Len(not_covered)]
    /\ pc' = "report"
    /\ UNCHANGED <<inputs, acl_list, cidr_list, i, j, covered, covered_count,
                   not_covered, errors, calls, msg, exported, export_called,
                   raised>>

\* the export without the test of not_covered
Export_unconditional ==
    /\ pc = "report"
    /\ exported' = [n \in 1..Len(not_covered) |-> <<n, not_covered[n]>>]
    /\ export_called' = TRUE
    /\ msg' = "exported"
    /\ pc' = "done"
    /\ UNCHANGED <<inputs, acl_list, cidr_list, i, j, covered, covered_count,
                   not_covered, errors, calls, summary, raised>>

\* lines 162-164 and export_to_excel, lines 103-104: one row per entry, in order
Export ==
    /\ pc = "report"
    /\ not_covered # << >>
    /\ exported' = [n \in 1..Len(not_covered) |-> <<n, not_covered[n]>>]
    /\ export_called' = TRUE
    /\ msg' = "exported"
    /\ pc' = "done"
    /\ UNCHANGED <<inputs, acl_list, cidr_list, i, j, covered, covered_count,
                   not_covered, errors, calls, summary, raised>>

\* lines 165-166
AllCovered ==
    /\ pc = "report"
    /\ not_covered = << >>
    /\ msg' = "all covered"
    /\ pc' = "done"
    /\ UNCHANGED <<inputs, acl_list, cidr_list, i, j, covered, covered_count,
                   not_covered, errors, calls, summary, exported,
                   export_called, raised>>

Next ==
    \/ Load
    \/ NoAcl
    \/ NoCidr
    \/ BeginScan
    \/ NextCidr
    \/ CheckPair
    \/ InnerDone
    \/ Verdict
    \/ Summary
    \/ Export
    \/ AllCovered

Spec == Init /\ [][Next]_vars

-----------------------------------------------------------------------------
(* A second run of batch_verify_acl_coverage, on the same CIDR file and a    *)
(* permutation of the lines of the ACL file; prev keeps the first outcome.   *)

Permutations(n) == {f \in [1..n -> 1..n] : \A a, b \in 1..n : a # b => f[a] # f[b]}

Outcome == [status |-> pc, covered_count |-> covered_count,
            not_covered |-> not_covered]

Rerun ==
    /\ pc \in {"done", "raised"}
    /\ prev = NoRun
    /\ prev' = Outcome
    /\ \E f \in Permutations(Len(acl_file.lines)) :
           acl_file' = [acl_file EXCEPT
                           !.lines = [k \in 1..Len(acl_file.lines) |->
                                          acl_file.lines[f[k]]]]
    /\ acl_list' = << >>
    /\ cidr_list' = << >>
    /\ pc' = "start"
    /\ i' = 0
    /\ j' = 0
    /\ covered' = FALSE
    /\ covered_count' = 0
    /\ not_covered' = << >>
    /\ errors' = << >>
    /\ calls' = << >>
    /\ msg' = "none"
    /\ summary' = NoSummary
    /\ exported' = << >>
    /\ export_called' = FALSE
    /\ raised' = "none"
    /\ UNCHANGED <<cidr_file, acl, cidr, result>>

NextRerun == Next \/ Rerun

SpecRerun == Init /\ [][NextRerun]_vars

-----------------------------------------------------------------------------
(* Direct calls of acl_contains_cidr *)

\* the wildcard 2^k - 1 in dotted form, most significant octet first
ContiguousWildcard(k) ==
    [n \in 1..4 |->
        LET ones == k - 8 * (4 - n)
        IN  IF ones <= 0 THEN 0 ELSE IF ones >= 8 THEN 255 ELSE 2^ones - 1]

BaseSet ==
    { <<10, 0, 0, 0>>, <<10, 0, 0, 4>>, <<10, 0, 0, 5>>, <<10, 0, 0, 8>>,
      <<0, 0, 0, 0>>, <<255, 255, 255, 255>>, <<192, 168, 1, 77>> }

WildcardSet ==
    {ContiguousWildcard(k) : k \in 0..32}
    \cup { <<0, 0, 0, 5>>, <<0, 0, 255, 0>>, <<255, 255, 255, 254>>,
           <<128, 0, 0, 7>> }

CidrBaseSet ==
    { <<10, 0, 0, 0>>, <<10, 0, 0, 4>>, <<10, 0, 0, 8>>, <<10, 0, 0, 5>>,
      <<0, 0, 0, 0>>, <<255, 255, 255, 255>>, <<192, 168, 1, 64>> }

AclArgs ==
    {<<b, w>> : b \in BaseSet, w \in WildcardSet}
    \cup { << <<10, 0, 0, 0>> >>,
           << <<10, 0, 0>>, <<0, 0, 0, 7>> >>,
           << <<10, 0, NotNum, 0>>, <<0, 0, 0, 7>> >>,
           << <<10, 0, 0, 0>>, <<0, 0, 7>> >>,
           << <<10, NotNum>>, <<0, 0, 0, 7>> >>,
           << <<10, 0, 0, 0, 9>>, <<0, 0, 0, 7>> >> }

CidrArgs ==
    {<<b, <<p>> >> : b \in CidrBaseSet, p \in 0..32}
    \cup { << <<10, 0, 0, 0>> >>,
           << <<10, 0, 0, 0>>, <<30>>, <<1>> >>,
           << <<10, 0, 0, 0>>, <<NotNum>> >>,
           << <<10, 0, 0>>, <<NotNum>> >>,
           << <<10, 0, 0, 0>>, <<33>> >>,
           << <<10, 0, 0>>, <<33>> >>,
           << <<10, 0, 0>>, <<30>> >>,
           << <<10, 0, NotNum, 0>>, <<30>> >> }

InitCall ==
    /\ acl \in AclArgs
    /\ cidr \in CidrArgs
    /\ result = "none"
    /\ pc = "call"
    /\ acl_file = [exists |-> FALSE, lines |-> << >>]
    /\ cidr_file = [exists |-> FALSE, lines |-> << >>]
    /\ acl_list = << >>
    /\ cidr_list = << >>
    /\ i = 0
    /\ j = 0
    /\ covered = FALSE
    /\ covered_count = 0
    /\ not_covered = << >>
    /\ errors = << >>
    /\ calls = << >>
    /\ msg = "none"
    /\ summary = NoSummary
    /\ exported = << >>
    /\ export_called = FALSE
    /\ raised = "none"
    /\ prev = NoRun

Call ==
    /\ pc = "call"
    /\ result' = acl_contains_cidr(acl, cidr)
    /\ pc' = "returned"
    /\ UNCHANGED <<acl_file, cidr_file, acl_list, cidr_list, i, j, covered,
                   covered_count, not_covered, errors, calls, msg, summary,
                   exported, export_called, raised, prev, acl, cidr>>

NextCall == Call

SpecCall == InitCall /\ [][NextCall]_vars

-----------------------------------------------------------------------------
(* Well-formed entries, and 32-bit reference arithmetic on two 16-bit halves *)

WellFormedAddr(parts) == Len(parts) = 4 /\ \A k \in 1..4 : parts[k] \in 0..255

WellFormedAcl(line) ==
    Len(line) = 2 /\ WellFormedAddr(line[1]) /\ WellFormedAddr(line[2])

WellFormedCidr(line) ==
    /\ Len(line) = 2
    /\ WellFormedAddr(line[1])
    /\ Len(line[2]) = 1
    /\ line[2][1] \in 0..32

PrefixLen(line) == line[2][1]

Hi(octets) == octets[1] * 256 + octets[2]
Lo(octets) == octets[3] * 256 + octets[4]

RECURSIVE Val(_)
Val(S) == IF S = {} THEN 0 ELSE LET k == Max(S) IN 2^k + Val(S \ {k})

AndNot16(x, w) == Val(Bits(x) \ Bits(w))
Or16(x, w) == Val(Bits(x) \cup Bits(w))

\* x with its low h bits cleared, h <= 16
ClearLow(x, h) == x - (x % (2^h))

LexLe(a, b) == a[1] < b[1] \/ (a[1] = b[1] /\ a[2] <= b[2])

\* aclStart = base AND NOT wildcard, aclEnd = base OR wildcard
RefAclStart(line) ==
    <<AndNot16(Hi(line[1]), Hi(line[2])), AndNot16(Lo(line[1]), Lo(line[2]))>>
RefAclEnd(line) ==
    <<Or16(Hi(line[1]), Hi(line[2])), Or16(Lo(line[1]), Lo(line[2]))>>

\* cidrStart = the base with its low 32 - prefixLen bits cleared, cidrEnd =
\* cidrStart with those bits set
RefCidrStart(line) ==
    LET h == 32 - PrefixLen(line)
    IN  IF h >= 16 THEN <<ClearLow(Hi(line[1]), h - 16), 0>>
        ELSE <<Hi(line[1]), ClearLow(Lo(line[1]), h)>>
RefCidrEnd(line) ==
    LET h == 32 - PrefixLen(line)
        s == RefCidrStart(line)
    IN  IF h >= 16 THEN <<s[1] + 2^(h - 16) - 1, 65535>>
        ELSE <<s[1], s[2] + 2^h - 1>>

RefContains(a, c) ==
    /\ LexLe(RefAclStart(a), RefCidrStart(c))
    /\ LexLe(RefCidrEnd(c), RefAclEnd(a))

Acl_10_0_0_0_w7 == << <<10, 0, 0, 0>>, <<0, 0, 0, 7>> >>

\* C6: for a well-formed ACL entry and a well-formed CIDR entry acl_contains_cidr
\* returns (raises nothing) and returns true exactly when aclStart <= cidrStart
\* and aclEnd >= cidrEnd, with aclStart = base AND NOT wildcard, aclEnd = base OR
\* wildcard, cidrStart = the CIDR base with its low 32 - prefixLen bits cleared
\* and cidrEnd = cidrStart with those bits set; 10.0.0.4/29 is contained in
\* "10.0.0.0 0.0.0.7" and 10.0.0.8/30 is not.
C6_RangeContainment ==
    (pc = "returned" /\ WellFormedAcl(acl) /\ WellFormedCidr(cidr)) =>
        /\ result \in {"True", "False"}
        /\ (result = "True") <=> RefContains(acl, cidr)
        /\ (acl = Acl_10_0_0_0_w7 /\ cidr = << <<10, 0, 0, 4>>, <<29>> >>)
               => result = "True"
        /\ (acl = Acl_10_0_0_0_w7 /\ cidr = << <<10, 0, 0, 8>>, <<30>> >>)
               => result = "False"

C6_Witness ==
    /\ pc = "returned"
    /\ acl = Acl_10_0_0_0_w7
    /\ cidr = << <<10, 0, 0, 4>>, <<29>> >>
    /\ result = "True"

\* C7: a CIDR entry of prefix length 0 has an all-zero mask and the range
\* 0 .. 2^32 - 1 whatever its base, and acl_contains_cidr returns true for it
\* exactly when the wildcard of the ACL entry is 255.255.255.255, whatever the
\* ACL base.
C7_PrefixZero ==
    (pc = "returned" /\ WellFormedAcl(acl) /\ WellFormedCidr(cidr)
        /\ PrefixLen(cidr) = 0) =>
        LET mask == cidr_mask(0)
            cstart == cidr_start(ip_to_int(cidr[1]).val, mask)
        IN  /\ mask = {}
            /\ cstart = {}
            /\ cidr_end(cstart, mask) = 0..31
            /\ (result = "True") <=> (acl[2] = <<255, 255, 255, 255>>)

C7_Witness ==
    /\ pc = "returned"
    /\ cidr = << <<10, 0, 0, 4>>, <<0>> >>
    /\ acl = << <<192, 168, 1, 77>>, <<255, 255, 255, 255>> >>
    /\ result = "True"

\* the bits of a dotted address, bit 0 the least significant of the last octet
AddrBits(octets) ==
    {k \in 0..31 : (octets[4 - (k \div 8)] \div (2^(k % 8))) % 2 = 1}

IsContiguous(w) == \E k \in 0..32 : w = ContiguousWildcard(k)

HostBits(line) == 0..(31 - PrefixLen(line))

\* (a XOR aclBase) AND NOT wildcard = 0
PerBitMatch(a, base, wild) == BitXor(a, base) \ wild = {}

\* every address of the CIDR block matches, by enumeration of the block
BlockMatches(a, c) ==
    LET first == AddrBits(c[1]) \ HostBits(c)
    IN  \A h \in SUBSET HostBits(c) :
            PerBitMatch(first \cup h, AddrBits(a[1]), AddrBits(a[2]))

\* the same, bit by bit: every host bit is a don't-care bit, and the block's
\* fixed bits agree with the base wherever the wildcard has a 0
BlockMatchesBitwise(a, c) ==
    LET first == AddrBits(c[1]) \ HostBits(c)
    IN  /\ HostBits(c) \subseteq AddrBits(a[2])
        /\ PerBitMatch(first, AddrBits(a[1]), AddrBits(a[2]))

\* C10: with a contiguous wildcard (2^k - 1) acl_contains_cidr returns true
\* exactly when every address a of the CIDR block satisfies
\* (a XOR aclBase) AND NOT wildcard = 0.  Blocks of at most 2^MaxHostBits
\* addresses are enumerated; on them the enumeration and the bit-by-bit form
\* agree for every wildcard, and the bit-by-bit form decides the larger blocks.
C10_ContiguousWildcardIsPerBit ==
    (pc = "returned" /\ WellFormedAcl(acl) /\ WellFormedCidr(cidr)) =>
        /\ (32 - PrefixLen(cidr) <= MaxHostBits) =>
               (BlockMatches(acl, cidr) <=> BlockMatchesBitwise(acl, cidr))
        /\ (IsContiguous(acl[2]) /\ 32 - PrefixLen(cidr) <= MaxHostBits) =>
               ((result = "True") <=> BlockMatches(acl, cidr))
        /\ IsContiguous(acl[2]) =>
               ((result = "True") <=> BlockMatchesBitwise(acl, cidr))

C10_Witness ==
    /\ pc = "returned"
    /\ acl = << <<10, 0, 0, 4>>, <<0, 0, 0, 15>> >>
    /\ cidr = << <<10, 0, 0, 8>>, <<30>> >>
    /\ result = "True"
    /\ BlockMatches(acl, cidr)

\* a non-contiguous wildcard whose range holds a block it does not match bit
\* by bit: "10.0.0.0 0.0.0.5" spans 10.0.0.0 - 10.0.0.5, 10.0.0.0/30 holds
\* 10.0.0.2 and 10.0.0.3
NonContiguousDisagrees ==
    /\ pc = "returned"
    /\ acl = << <<10, 0, 0, 0>>, <<0, 0, 0, 5>> >>
    /\ cidr = << <<10, 0, 0, 0>>, <<30>> >>
    /\ result = "True"
    /\ ~BlockMatches(acl, cidr)

-----------------------------------------------------------------------------
(* The batch *)

Range(f) == {f[n] : n \in DOMAIN f}

AllWellFormed ==
    /\ \A k \in 1..Len(acl_list) : WellFormedAcl(acl_list[k])
    /\ \A k \in 1..Len(cidr_list) : WellFormedCidr(cidr_list[k])

\* no single entry of the ACL list contains c
NoSingleAclContains(c) ==
    \A k \in 1..Len(acl_list) : ~RefContains(acl_list[k], c)

\* the addresses of c are those of two adjacent ACL ranges put together
UnionOfTwoCovers(a1, a2, c) ==
    /\ RefAclStart(a1) = RefCidrStart(c)
    /\ RefAclEnd(a1)[1] = RefAclStart(a2)[1]
    /\ RefAclEnd(a1)[2] + 1 = RefAclStart(a2)[2]
    /\ RefAclEnd(a2) = RefCidrEnd(c)

\* C1: with non-empty lists of well-formed entries, once the scan is over the
\* uncovered list is the CIDR list restricted, in order and with the lines as
\* read, to the CIDRs no single ACL entry contains, the covered count is the
\* number of the others, and the summary prints these counts.
C1_UncoveredIsRestriction ==
    (pc \in {"report", "done"} /\ acl_list # << >> /\ cidr_list # << >>
        /\ AllWellFormed) =>
        /\ not_covered = SelectSeq(cidr_list, NoSingleAclContains)
        /\ covered_count = Len(cidr_list) - Len(not_covered)
        /\ summary = [total |-> Len(cidr_list), covered |-> covered_count,
                      uncovered |-> Len(not_covered)]

\* a CIDR covered by the union of two entries only is listed as uncovered
C1_Witness ==
    /\ pc = "done"
    /\ AllWellFormed
    /\ Len(acl_list) = 2
    /\ Len(cidr_list) = 2
    /\ UnionOfTwoCovers(acl_list[1], acl_list[2], cidr_list[1])
    /\ not_covered = <<cidr_list[1]>>
    /\ covered_count = 1

\* lines 28-34 raise: the ACL entry does not parse
AclFailsToParse(line) ==
    \/ Len(line) # 2
    \/ ip_to_int(line[1]).exc # "none"
    \/ ip_to_int(line[2]).exc # "none"

\* C2: a call of acl_contains_cidr on an ACL entry that does not parse is
\* followed by the notice for its pair and never ends the run; and a CIDR whose
\* scan is over counts as covered when a well-formed entry containing it stands
\* after an entry that does not parse.
C2_AclParseErrorIsSkipped ==
    /\ \A n \in 1..Len(calls) :
           AclFailsToParse(acl_list[calls[n][2]]) =>
               /\ calls[n] \in Range(errors)
               /\ ~(pc = "raised" /\ n = Len(calls))
    /\ (pc \in {"verdict", "raised"} /\ i >= 1
            /\ \E k, m \in 1..Len(acl_list) :
                   /\ k < m
                   /\ AclFailsToParse(acl_list[k])
                   /\ WellFormedAcl(acl_list[m])
                   /\ acl_contains_cidr(acl_list[m], cidr_list[i]) = "True") =>
           (pc = "verdict" /\ covered)

\* C3: no exception leaves the batch, and a run on two non-empty lists that has
\* stopped has printed the summary.
C3_BatchReachesSummary ==
    /\ raised = "none"
    /\ pc # "raised"
    /\ (pc = "done" /\ acl_list # << >> /\ cidr_list # << >>) =>
           summary # NoSummary

\* wrong number of '/'-separated tokens, or a prefix length that is no number
MalformedCidr(line) == Len(line) # 2 \/ IntOf(line[2]).exc # "none"

\* an address of fewer than four components in the ACL entry
AclAddressShort(line) ==
    Len(line) = 2 /\ (Len(line[1]) < 4 \/ Len(line[2]) < 4)

\* C4 as stated: a call of acl_contains_cidr on a malformed CIDR, with an ACL
\* entry that parses, ends the run, and no notice is printed for the pair; a
\* malformed CIDR enters the uncovered list only when no ACL entry parses.
C4_MalformedCidrAborts ==
    /\ \A n \in 1..Len(calls) :
           (/\ MalformedCidr(cidr_list[calls[n][1]])
            /\ ~AclFailsToParse(acl_list[calls[n][2]])) =>
               /\ pc = "raised"
               /\ n = Len(calls)
               /\ calls[n] \notin Range(errors)
    /\ \A n \in 1..Len(not_covered) :
           MalformedCidr(not_covered[n]) =>
               \A k \in 1..Len(acl_list) : AclFailsToParse(acl_list[k])

\* C4 as amended: a call on a malformed CIDR never returns; it raises the
\* ValueError the loop catches (the notice of the pair is printed and the scan
\* goes on) unless the ACL entry of the pair has an address of fewer than four
\* components, whose IndexError ends the run before the CIDR is parsed; and
\* when the scan of the CIDR is over every ACL entry was tried and the CIDR is
\* the last of the uncovered list.
C4_MalformedCidrCaughtPerPair ==
    /\ \A n \in 1..Len(calls) :
           MalformedCidr(cidr_list[calls[n][1]]) =>
               LET r == acl_contains_cidr(acl_list[calls[n][2]],
                                          cidr_list[calls[n][1]])
               IN  /\ r \in {"ValueError", "IndexError"}
                   /\ (r = "IndexError") <=> AclAddressShort(acl_list[calls[n][2]])
                   /\ (r = "ValueError") => calls[n] \in Range(errors)
                   /\ (r = "ValueError") => ~(pc = "raised" /\ n = Len(calls))
    /\ (pc = "verdict" /\ MalformedCidr(cidr_list[i])) =>
           /\ ~covered
           /\ calls[Len(calls)] = <<i, Len(acl_list)>>
    /\ (pc \in {"outer", "report", "done"} /\ i >= 1
            /\ MalformedCidr(cidr_list[i])) =>
           /\ not_covered # << >>
           /\ not_covered[Len(not_covered)] = cidr_list[i]

C4_Witness ==
    /\ pc = "done"
    /\ Len(cidr_list) = 2
    /\ Len(cidr_list[1]) = 1
    /\ Len(cidr_list[2]) = 2
    /\ IntOf(cidr_list[2][2]).exc = "ValueError"
    /\ Len(acl_list) = 1
    /\ WellFormedAcl(acl_list[1])
    /\ errors = << <<1, 1>>, <<2, 1>> >>
    /\ not_covered = cidr_list
    /\ export_called

\* C5: export_to_excel is called only after the summary of a scan that left a
\* non-empty uncovered list; a finished run has called it exactly when both
\* lists are non-empty and the uncovered list is non-empty; a missing file
\* loads as the empty list, and a run with an empty list makes no call of
\* acl_contains_cidr.
C5_ExportExactlyWhenUncovered ==
    /\ export_called =>
           /\ acl_list # << >> /\ cidr_list # << >>
           /\ summary # NoSummary
           /\ not_covered # << >>
           /\ exported = [n \in 1..Len(not_covered) |-> <<n, not_covered[n]>>]
    /\ (pc = "done") =>
           (export_called <=>
               (acl_list # << >> /\ cidr_list # << >> /\ not_covered # << >>))
    /\ (pc # "start" /\ ~acl_file.exists) => acl_list = << >>
    /\ (pc # "start" /\ ~cidr_file.exists) => cidr_list = << >>
    /\ (pc # "start" /\ (acl_list = << >> \/ cidr_list = << >>)) =>
           /\ calls = << >>
           /\ pc \in {"loaded", "done"}
           /\ summary = NoSummary

C5_Witness ==
    /\ pc = "done"
    /\ export_called
    /\ Len(exported) = 2
    /\ Len(cidr_list) = 2
    /\ covered_count = 0

\* C8: a run on a permutation of the ACL lines ends as the first run did: same
\* end (summary or exception), same covered count, same uncovered list.
C8_AclOrderIrrelevant ==
    (prev # NoRun /\ pc \in {"done", "raised"}) => Outcome = prev

\* C9: the calls of acl_contains_cidr follow the ACL list in order for each
\* CIDR, no call is made for an entry that stands after one containing the CIDR
\* (so no notice either), the scan of the next CIDR starts at the first entry,
\* and a scan that is over stopped at the covering entry or at the end of the
\* list.
C9_ScanStopsAtFirstCover ==
    /\ \A n \in 1..Len(calls) :
           LET ci == calls[n][1]
               aj == calls[n][2]
           IN  /\ \A k \in 1..(aj - 1) :
                      acl_contains_cidr(acl_list[k], cidr_list[ci]) # "True"
               /\ IF aj = 1
                  THEN IF n = 1 THEN ci = 1 ELSE calls[n - 1][1] = ci - 1
                  ELSE n > 1 /\ calls[n - 1] = <<ci, aj - 1>>
    /\ Range(errors) \subseteq Range(calls)
    /\ (pc = "verdict") =>
           /\ calls # << >>
           /\ calls[Len(calls)][1] = i
           /\ LET last == calls[Len(calls)][2]
              IN  IF covered
                  THEN acl_contains_cidr(acl_list[last], cidr_list[i]) = "True"
                  ELSE last = Len(acl_list)

\* a covering entry followed by a line that does not parse, scanned twice
C9_Witness ==
    /\ pc = "done"
    /\ Len(acl_list) = 2
    /\ AclFailsToParse(acl_list[2])
    /\ Len(cidr_list) = 2
    /\ calls = << <<1, 1>>, <<2, 1>> >>
    /\ errors = << >>
    /\ covered_count = 2

====
